---- MODULE Spec2Model ----
(***************************************************************************)
(* A model of my_cash (src/app.py): the MyCash ledger of one user, its     *)
(* in-memory list of records and the JSON file <username>.json behind it.  *)
(*                                                                         *)
(* Strings that the code takes apart (dates) are sequences of one-letter   *)
(* strings; the two category literals of the source are Cyrillic and are   *)
(* written here in Latin transliteration ("Dohod", "Rashod").  An optional *)
(* argument is a sequence of length 0 (None) or 1 (the value passed).      *)
(***************************************************************************)
EXTENDS Integers, Sequences, FiniteSets

VARIABLES records, file, last, ret

vars == <<records, file, last, ret>>

\* The longest ledger the model builds.
MaxRecords == 2

-----------------------------------------------------------------------------
(* Values *)

None == <<>>
Some(v) == <<v>>

Income == "Dohod"
Expense == "Rashod"

D_2024_05_02 == <<"2","0","2","4","-","0","5","-","0","2">>
D_2024_05_03 == <<"2","0","2","4","-","0","5","-","0","3">>
D_2024_06_02 == <<"2","0","2","4","-","0","6","-","0","2">>
D_2023_05_02 == <<"2","0","2","3","-","0","5","-","0","2">>
Q_2024 == <<"2","0","2","4">>
Q_2023 == <<"2","0","2","3">>
Q_2024_05 == <<"2","0","2","4","-","0","5">>
Q_2024_06 == <<"2","0","2","4","-","0","6">>
Q_2024_0 == <<"2","0","2","4","-","0">>
Q_202 == <<"2","0","2">>
EmptyStr == <<>>

\* class Record: the four attributes __init__ sets, in that order.
Record(date, category, price, description) ==
    [date |-> date, category |-> category, price |-> price,
     description |-> description]

\* Python's truth value of an optional argument (the "if date:" tests of
\* edit_record and search_records): None is false, and so are the empty
\* string and 0.  One operator per type of value.
TruthyDate(arg) == arg # None /\ arg[1] # EmptyStr
TruthyText(arg) == arg # None /\ arg[1] # ""
TruthyInt(arg) == arg # None /\ arg[1] # 0

-----------------------------------------------------------------------------
(* The file <username>.json *)

MissingFile == [kind |-> "missing", data |-> <<>>]
\* A file that json.load cannot parse: truncated by open(..., "w") and not,
\* or only partly, written.
CorruptFile == [kind |-> "corrupt", data |-> <<>>]
JsonFile(data) == [kind |-> "json", data |-> data]

\* record.__dict__: the attributes as key/value pairs, in insertion order.
Dict(record) ==
    << <<"date", record.date>>, <<"category", record.category>>,
       <<"price", record.price>>, <<"description", record.description>> >>

\* The value of a key in a JSON object.
Get(obj, key) == obj[CHOOSE k \in 1..Len(obj) : obj[k][1] = key][2]

\* Record(**record) with category and description taking each other's value.
FromDict_swapped(obj) ==
    Record(Get(obj, "date"), Get(obj, "description"), Get(obj, "price"),
           Get(obj, "category"))

\* Record(**record): the keyword arguments bound by name.
FromDict(obj) ==
    Record(Get(obj, "date"), Get(obj, "category"), Get(obj, "price"),
           Get(obj, "description"))

\* data = [record.__dict__ for record in self.records]
Dump(recs) == [i \in 1..Len(recs) |-> Dict(recs[i])]

\* save_data: "ok" writes the whole list; "open_fails" raises before the file
\* is touched; "write_fails" raises after open(..., "w") has truncated it.
save_data(recs, f, io) ==
    CASE io = "ok" -> [file |-> JsonFile(Dump(recs)), outcome |-> "ok"]
      [] io = "open_fails" -> [file |-> f, outcome |-> "WriteError"]
      [] io = "write_fails" -> [file |-> CorruptFile, outcome |-> "WriteError"]

\* load_data: appends every record of the file to self.records; a missing
\* file resets the list; a file that does not parse raises out of json.load
\* before anything is appended.
load_data(recs, f) ==
    CASE f.kind = "missing" -> [records |-> <<>>, outcome |-> "ok"]
      [] f.kind = "corrupt" -> [records |-> recs, outcome |-> "ReadError"]
      [] f.kind = "json" ->
           [records |-> recs \o [i \in 1..Len(f.data) |-> FromDict(f.data[i])],
            outcome |-> "ok"]

\* MyCash.__init__: an empty list, then load_data.
init(f) == load_data(<<>>, f)

-----------------------------------------------------------------------------
(* The operations on the list *)

\* add_record inserting at the front instead of appending.
add_record_front(recs, f, date, category, price, description, io) ==
    LET inserted == <<Record(date, category, price, description)>> \o recs
        saved == save_data(inserted, f, io)
    IN  [records |-> inserted, file |-> saved.file, outcome |-> saved.outcome]

\* add_record: append, then save_data.
add_record(recs, f, date, category, price, description, io) ==
    LET appended == Append(recs, Record(date, category, price, description))
        saved == save_data(appended, f, io)
    IN  [records |-> appended, file |-> saved.file, outcome |-> saved.outcome]

\* self.records[record_id]: Python takes -len..-1 as counting from the end.
InRange(recs, record_id) == -Len(recs) <= record_id /\ record_id < Len(recs)
Position(recs, record_id) ==
    IF record_id < 0 THEN record_id + Len(recs) + 1 ELSE record_id + 1

\* The four tests written "if <arg> is not None": 0 and "" overwrite.
Edited_if_given(record, date, category, price, description) ==
    [date |-> IF date # None THEN date[1] ELSE record.date,
     category |-> IF category # None THEN category[1] ELSE record.category,
     price |-> IF price # None THEN price[1] ELSE record.price,
     description |->
        IF description # None THEN description[1] ELSE record.description]

\* The four "if <arg>: record.<field> = <arg>" of edit_record.
Edited(record, date, category, price, description) ==
    [date |-> IF TruthyDate(date) THEN date[1] ELSE record.date,
     category |-> IF TruthyText(category) THEN category[1] ELSE record.category,
     price |-> IF TruthyInt(price) THEN price[1] ELSE record.price,
     description |->
        IF TruthyText(description) THEN description[1] ELSE record.description]

\* edit_record without its closing save_data.
edit_record_unsaved(recs, f, record_id, date, category, price, description, io) ==
    IF ~InRange(recs, record_id)
    THEN [records |-> recs, file |-> f, outcome |-> "IndexError"]
    ELSE LET k == Position(recs, record_id)
             changed == [recs EXCEPT ![k] =
                            Edited(recs[k], date, category, price, description)]
         IN  [records |-> changed, file |-> f, outcome |-> "ok"]

\* edit_record: the lookup raises IndexError before anything is changed or
\* saved; otherwise the record is changed in place and the list saved.
edit_record(recs, f, record_id, date, category, price, description, io) ==
    IF ~InRange(recs, record_id)
    THEN [records |-> recs, file |-> f, outcome |-> "IndexError"]
    ELSE LET k == Position(recs, record_id)
             changed == [recs EXCEPT ![k] =
                            Edited(recs[k], date, category, price, description)]
             saved == save_data(changed, f, io)
         IN  [records |-> changed, file |-> saved.file,
              outcome |-> saved.outcome]

\* str.split("-")
RECURSIVE Split(_)
Split(s) ==
    IF \A i \in 1..Len(s) : s[i] # "-"
    THEN <<s>>
    ELSE LET i == CHOOSE j \in 1..Len(s) :
                      s[j] = "-" /\ \A h \in 1..(j - 1) : s[h] # "-"
         IN  <<SubSeq(s, 1, i - 1)>> \o Split(SubSeq(s, i + 1, Len(s)))

\* The slice parts[:n]
Take(parts, n) == SubSeq(parts, 1, IF n < Len(parts) THEN n ELSE Len(parts))

\* The date test written record.date.startswith(date).
DateMatches_startswith(record_date, input_date) ==
    Take(record_date, Len(input_date)) = input_date

\* The date test of search_records (lines 116-118).
DateMatches(record_date, input_date) ==
    LET record_date_parts == Split(record_date)
        input_date_parts == Split(input_date)
    IN  Take(record_date_parts, Len(input_date_parts)) = input_date_parts

\* One pass of the loop of search_records: TRUE when the record is appended.
Selected(record, category, date, price) ==
    /\ ~(TruthyText(category) /\ category[1] # record.category)
    /\ ~(TruthyDate(date) /\ ~DateMatches(record.date, date[1]))
    /\ ~(TruthyInt(price) /\ price[1] # record.price)

\* search_records
search_records(recs, category, date, price) ==
    LET Keep(record) == Selected(record, category, date, price)
    IN  SelectSeq(recs, Keep)

\* sum(record.price for record in self.records if record.category == cat)
RECURSIVE SumOf(_, _)
SumOf(recs, cat) ==
    IF recs = <<>>
    THEN 0
    ELSE (IF Head(recs).category = cat THEN Head(recs).price ELSE 0)
         + SumOf(Tail(recs), cat)

\* display_balance counting every record as an expense.
display_balance_all_expense(recs) ==
    LET income == SumOf(recs, Income)
        expense == SumOf(recs, Income) + SumOf(recs, Expense)
        balance == income - expense
    IN  <<balance, income, expense>>

\* display_balance
display_balance(recs) ==
    LET income == SumOf(recs, Income)
        expense == SumOf(recs, Expense)
        balance == income - expense
    IN  <<balance, income, expense>>

-----------------------------------------------------------------------------
(* The steps *)

Done(op, outcome) == [op |-> op, outcome |-> outcome]

\* A fresh process: no file yet, MyCash(username) built.
Init ==
    /\ file = MissingFile
    /\ records = init(MissingFile).records
    /\ last = Done("__init__", "ok")
    /\ ret = None

Construct ==
    LET r == init(file)
    IN  /\ records' = (IF r.outcome = "ok" THEN r.records ELSE <<>>)
        /\ last' = Done("__init__", r.outcome)
        /\ ret' = None
        /\ UNCHANGED file

LoadData ==
    LET r == load_data(records, file)
    IN  /\ Len(r.records) <= MaxRecords
        /\ records' = r.records
        /\ last' = Done("load_data", r.outcome)
        /\ ret' = None
        /\ UNCHANGED file

SaveData(IO) ==
    \E io \in IO :
        LET r == save_data(records, file, io)
        IN  /\ file' = r.file
            /\ last' = Done("save_data", r.outcome)
            /\ ret' = None
            /\ UNCHANGED records

AddRecord(Dates, Categories, Prices, Descriptions, IO) ==
    \E date \in Dates, category \in Categories, price \in Prices,
       description \in Descriptions, io \in IO :
        LET r == add_record(records, file, date, category, price,
                            description, io)
        IN  /\ Len(records) < MaxRecords
            /\ records' = r.records
            /\ file' = r.file
            /\ last' = Done("add_record", r.outcome)
            /\ ret' = None

\* The indices worth trying on a list: every valid one and the nearest
\* invalid ones on both sides.
Indices(recs) == (-(Len(recs) + 1))..Len(recs)

\* One call of edit_record.
EditStep(record_id, date, category, price, description, io) ==
    LET r == edit_record(records, file, record_id, date, category, price,
                         description, io)
    IN  /\ records' = r.records
        /\ file' = r.file
        /\ last' = Done("edit_record", r.outcome)
        /\ ret' = None

EditRecord(Dates, Categories, Prices, Descriptions, IO) ==
    \E record_id \in Indices(records), date \in Dates,
       category \in Categories, price \in Prices,
       description \in Descriptions, io \in IO :
        EditStep(record_id, date, category, price, description, io)

\* One call of search_records.
SearchStep(category, date, price) ==
    /\ ret' = search_records(records, category, date, price)
    /\ last' = Done("search_records", "ok")
    /\ UNCHANGED <<records, file>>

SearchRecords(Categories, Dates, Prices) ==
    \E category \in Categories, date \in Dates, price \in Prices :
        SearchStep(category, date, price)

DisplayBalance ==
    /\ ret' = display_balance(records)
    /\ last' = Done("display_balance", "ok")
    /\ UNCHANGED <<records, file>>

-----------------------------------------------------------------------------
(* The ledger and its file: every operation, with writes that may fail *)

AnyIO == {"ok", "open_fails", "write_fails"}

LedgerDates == {D_2024_05_02}
LedgerCategories == {Income, Expense}
LedgerPrices == {1}
LedgerDescriptions == {"a"}
LedgerEditPrices == {None, Some(2)}
LedgerEditDescriptions == {None, Some("b")}

LedgerAdd ==
    AddRecord(LedgerDates, LedgerCategories, LedgerPrices, LedgerDescriptions,
              AnyIO)

LedgerEdit ==
    EditRecord({None}, {None}, LedgerEditPrices, LedgerEditDescriptions, AnyIO)

LedgerSave == SaveData(AnyIO)

LedgerSearch == SearchRecords({Some(Expense)}, {None}, {None})

Next ==
    \/ Construct
    \/ LoadData
    \/ LedgerSave
    \/ LedgerAdd
    \/ LedgerEdit
    \/ LedgerSearch
    \/ DisplayBalance

Spec == Init /\ [][Next]_vars

-----------------------------------------------------------------------------
(* Editing: every combination of absent, empty and new values *)

EditDates == {None, Some(EmptyStr), Some(D_2024_05_03)}
EditCategories == {None, Some(""), Some(Expense)}
EditPrices == {None, Some(0), Some(2)}
EditDescriptions == {None, Some(""), Some("b")}

EditAdd == AddRecord({D_2024_05_02}, {Income}, {1}, {"a"}, {"ok"})

EditEdit ==
    EditRecord(EditDates, EditCategories, EditPrices, EditDescriptions, {"ok"})

NextEdit == EditAdd \/ EditEdit

SpecEdit == Init /\ [][NextEdit]_vars

-----------------------------------------------------------------------------
(* Queries: searches and the balance over ledgers built by add_record *)

SearchDates == {D_2024_05_02, D_2024_05_03, D_2024_06_02, D_2023_05_02}
SearchPrices == {0, 2}

QueryCategories == {None, Some(Income), Some(Expense)}
DateQueries ==
    {Q_2024, Q_2023, Q_2024_05, Q_2024_06, D_2024_05_02, Q_2024_0, Q_202}
QueryDates == {None} \cup {Some(q) : q \in DateQueries}
QueryPrices == {None} \cup {Some(p) : p \in SearchPrices}

SearchAdd == AddRecord(SearchDates, {Income, Expense}, SearchPrices, {"a"}, {"ok"})

SearchSearch == SearchRecords(QueryCategories, QueryDates, QueryPrices)

NextSearch == SearchAdd \/ SearchSearch \/ DisplayBalance

SpecSearch == Init /\ [][NextSearch]_vars

-----------------------------------------------------------------------------
(* Claims *)

Fields == {"date", "category", "price", "description"}

\* C1: every add_record makes the list one longer, puts a record with
\* exactly the four supplied values at the index that was the length, and
\* leaves every earlier record where and as it was: in every reachable
\* ledger for every input (whether or not the save succeeds), and on every
\* add_record step taken.
C1_AddAppends ==
    /\ [](\A date \in LedgerDates, category \in LedgerCategories,
             price \in LedgerPrices, description \in LedgerDescriptions,
             io \in AnyIO :
            LET after == add_record(records, file, date, category, price,
                                    description, io).records
                n == Len(records)
            IN  /\ Len(after) = n + 1
                /\ after[n + 1].date = date
                /\ after[n + 1].category = category
                /\ after[n + 1].price = price
                /\ after[n + 1].description = description
                /\ DOMAIN after[n + 1] = Fields
                /\ \A i \in 1..n : after[i] = records[i])
    /\ [][last'.op = "add_record" =>
            /\ Len(records') = Len(records) + 1
            /\ \A i \in 1..Len(records) : records'[i] = records[i]]_vars

\* A second, different record was added behind a first one.
C1_Witness ==
    /\ last.op = "add_record"
    /\ Len(records) = 2
    /\ records[1].category = Income
    /\ records[2].category = Expense

\* The sum of price over the indices in S, one index at a time.
RECURSIVE PriceSum(_, _)
PriceSum(recs, S) ==
    IF S = {}
    THEN 0
    ELSE LET i == CHOOSE j \in S : TRUE
         IN  recs[i].price + PriceSum(recs, S \ {i})

IndicesOf(recs, cat) == {i \in 1..Len(recs) : recs[i].category = cat}

\* C2: display_balance returns (income - expense, income, expense), income and
\* expense being the sums of price over the records of category Income and
\* Expense; (0, 0, 0) for the empty ledger.  Holds of the value returned by
\* every display_balance step and of display_balance on every reachable ledger.
C2_Balance ==
    LET income == PriceSum(records, IndicesOf(records, Income))
        expense == PriceSum(records, IndicesOf(records, Expense))
    IN  /\ display_balance(records) = <<income - expense, income, expense>>
        /\ records = <<>> => display_balance(records) = <<0, 0, 0>>
        /\ last.op = "display_balance" =>
              ret = <<income - expense, income, expense>>

\* A balance was returned for a ledger with one income and one expense.
C2_Witness ==
    /\ last.op = "display_balance"
    /\ Len(records) = 2
    /\ records[1].category = Income
    /\ records[2].category = Expense
    /\ ret = <<0, 2, 2>>

\* C3: edit_record with an index below 0 or at or above the length raises
\* IndexError and changes neither the list nor the file.  Stated of every
\* edit_record step and every such index that produces it.
C3_OutOfBounds ==
    [][\A record_id \in Indices(records), date \in EditDates,
          category \in EditCategories, price \in EditPrices,
          description \in EditDescriptions :
            (/\ record_id < 0 \/ record_id >= Len(records)
             /\ EditStep(record_id, date, category, price, description, "ok"))
            => (/\ last'.outcome = "IndexError"
                /\ records' = records
                /\ file' = file)]_vars

\* C4: edit_record on a valid index sets each field whose argument is present
\* and neither empty nor 0, keeps each field whose argument is absent, "" or
\* 0, and changes neither the length nor any other record: of edit_record on
\* every reachable ledger for every input, and of every edit_record step.
C4_EditFields ==
    /\ [](\A record_id \in 0..(Len(records) - 1), date \in EditDates,
             category \in EditCategories, price \in EditPrices,
             description \in EditDescriptions :
            LET after == edit_record(records, file, record_id, date, category,
                                     price, description, "ok").records
                k == record_id + 1
            IN  /\ Len(after) = Len(records)
                /\ \A j \in (1..Len(records)) \ {k} : after[j] = records[j]
                /\ after[k].date =
                     IF date \in {None, Some(EmptyStr)}
                     THEN records[k].date ELSE date[1]
                /\ after[k].category =
                     IF category \in {None, Some("")}
                     THEN records[k].category ELSE category[1]
                /\ after[k].price =
                     IF price \in {None, Some(0)}
                     THEN records[k].price ELSE price[1]
                /\ after[k].description =
                     IF description \in {None, Some("")}
                     THEN records[k].description ELSE description[1])
    /\ [][(last'.op = "edit_record" /\ last'.outcome = "ok") =>
            /\ Len(records') = Len(records)
            /\ Cardinality({j \in 1..Len(records) :
                               records'[j] # records[j]}) <= 1]_vars

\* An edit has rewritten all four fields of the second record and left the
\* first as it was added.
C4_Witness ==
    /\ last.op = "edit_record"
    /\ last.outcome = "ok"
    /\ records = << Record(D_2024_05_02, Income, 1, "a"),
                    Record(D_2024_05_03, Expense, 2, "b") >>

\* The components of the query are, in order, the first components of the
\* record's date.
LeadingComponents(query, record_date) ==
    LET qp == Split(query)
        dp == Split(record_date)
    IN  /\ Len(qp) <= Len(dp)
        /\ \A k \in 1..Len(qp) : dp[k] = qp[k]

\* C5: search_records returns, in the order of the list, exactly the records
\* that meet every criterion that was supplied (a criterion left out matches
\* everything), and leaves the list alone.  Stated of every search_records
\* step and every choice of criteria that produces it.
C5_SearchAllCriteria ==
    [][\A category \in QueryCategories, date \in QueryDates,
          price \in QueryPrices :
            LET Meets(record) ==
                    /\ category # None => record.category = category[1]
                    /\ date # None => LeadingComponents(date[1], record.date)
                    /\ price # None => record.price = price[1]
            IN  SearchStep(category, date, price) =>
                    (ret' = SelectSeq(records, Meets) /\ records' = records)]_vars

Digits == {"0", "1", "2", "3", "4", "5", "6", "7", "8", "9"}
IsYear(q) == Len(q) = 4 /\ \A i \in 1..4 : q[i] \in Digits
IsYearMonth(q) ==
    Len(q) = 7 /\ q[5] = "-" /\ \A i \in {1, 2, 3, 4, 6, 7} : q[i] \in Digits
IsFullDate(q) ==
    /\ Len(q) = 10 /\ q[5] = "-" /\ q[8] = "-"
    /\ \A i \in {1, 2, 3, 4, 6, 7, 9, 10} : q[i] \in Digits

\* C6: a search by date alone returns the records whose date starts with the
\* components of the query: for a year the records of that year, for a year
\* and month the records of that month whatever the day, for a full date the
\* records of exactly that date.
C6_DatePrefix ==
    \A q \in DateQueries :
        LET found == search_records(records, None, Some(q), None)
            Leads(record) == LeadingComponents(q, record.date)
            SameYear(record) == SubSeq(record.date, 1, 4) = q
            SameMonth(record) == SubSeq(record.date, 1, 7) = q
            SameDay(record) == record.date = q
        IN  /\ found = SelectSeq(records, Leads)
            /\ IsYear(q) => found = SelectSeq(records, SameYear)
            /\ IsYearMonth(q) => found = SelectSeq(records, SameMonth)
            /\ IsFullDate(q) => found = SelectSeq(records, SameDay)

\* A search has told apart two records that differ in nothing but the month.
C6_Witness ==
    /\ last.op = "search_records"
    /\ records = << Record(D_2024_05_02, Income, 2, "a"),
                    Record(D_2024_06_02, Income, 2, "a") >>
    /\ ret = << Record(D_2024_05_02, Income, 2, "a") >>
    /\ ret = search_records(records, None, Some(Q_2024_05), None)

\* C7: a search by amount alone returns exactly the records of that amount,
\* for every amount, 0 included.  Stated of every search_records step.
C7_ExactAmount ==
    [][\A price \in SearchPrices :
            LET HasAmount(record) == record.price = price
            IN  SearchStep(None, None, Some(price)) =>
                    ret' = SelectSeq(records, HasAmount)]_vars

\* The records a JSON file holds, in its order.
Persisted(f) == [i \in 1..Len(f.data) |-> FromDict(f.data[i])]

\* C8: save_data followed by MyCash(username) gives a list of the same
\* length with the same four fields at every index: of the two calls on every
\* reachable ledger, and of every __init__ step that follows a save_data step.
C8_RoundTrip ==
    /\ [](LET fresh == init(save_data(records, file, "ok").file)
          IN  /\ fresh.outcome = "ok"
              /\ Len(fresh.records) = Len(records)
              /\ \A i \in 1..Len(records) :
                    /\ fresh.records[i].date = records[i].date
                    /\ fresh.records[i].category = records[i].category
                    /\ fresh.records[i].price = records[i].price
                    /\ fresh.records[i].description = records[i].description)
    /\ [][(last.op = "save_data" /\ last.outcome = "ok"
           /\ last'.op = "__init__")
          => (last'.outcome = "ok" /\ records' = records)]_vars

\* A fresh instance has loaded two different records, one of them edited,
\* from the file the list was saved to.
C8_Witness ==
    /\ last.op = "__init__"
    /\ last.outcome = "ok"
    /\ file.kind = "json"
    /\ Len(file.data) = 2
    /\ records = << Record(D_2024_05_02, Income, 1, "a"),
                    Record(D_2024_05_02, Expense, 2, "b") >>

\* C9: after a load_data that raised nothing the list is the list of the
\* file, or empty when there is no file, whatever it held before.
C9_LoadReplaces ==
    (last.op = "load_data" /\ last.outcome = "ok") =>
        records = (IF file.kind = "json" THEN Persisted(file) ELSE <<>>)

\* C10: after every add_record or edit_record that raised nothing the file
\* holds the list; search_records and display_balance change neither; and
\* when the write fails the list is as the call would have left it had the
\* write succeeded, while the file is as it was or no longer readable.
C10_Persistence ==
    /\ []((last.op \in {"add_record", "edit_record"} /\ last.outcome = "ok")
            => (file.kind = "json" /\ Persisted(file) = records))
    /\ [][last'.op \in {"search_records", "display_balance"}
            => (records' = records /\ file' = file)]_vars
    /\ [][(last'.op = "add_record" /\ last'.outcome = "WriteError")
            => (/\ Len(records') = Len(records) + 1
                /\ file' \in {file, CorruptFile})]_vars
    /\ [](\A io \in {"open_fails", "write_fails"} :
            /\ \A date \in LedgerDates, category \in LedgerCategories,
                  price \in LedgerPrices, description \in LedgerDescriptions :
                  LET failed == add_record(records, file, date, category,
                                           price, description, io)
                      done == add_record(records, file, date, category,
                                         price, description, "ok")
                  IN  /\ failed.outcome = "WriteError"
                      /\ failed.records = done.records
                      /\ failed.records # records
                      /\ failed.file \in {file, CorruptFile}
            /\ \A record_id \in 0..(Len(records) - 1),
                  price \in LedgerEditPrices,
                  description \in LedgerEditDescriptions :
                  LET failed == edit_record(records, file, record_id, None,
                                            None, price, description, io)
                      done == edit_record(records, file, record_id, None,
                                          None, price, description, "ok")
                  IN  /\ failed.outcome = "WriteError"
                      /\ failed.records = done.records
                      /\ failed.file \in {file, CorruptFile})

\* An add_record whose write failed: the list has the new record, the file
\* still holds the shorter list.
C10_Witness ==
    /\ last.op = "add_record"
    /\ last.outcome = "WriteError"
    /\ file.kind = "json"
    /\ Len(records) = 2
    /\ Persisted(file) = <<records[1]>>

====
